---- MODULE Spec2Model ----
(***************************************************************************)
(* QSOlive client (src/client/qsolive_client.py): ADIF tokenizer, grid     *)
(* square geocoder, record normalization and the UDP ingest loop with its  *)
(* delivery retry.                                                         *)
(*                                                                         *)
(* Text is a sequence of one-character strings; a cursor is a Python       *)
(* (0-based, possibly negative) index.  A dict is a function whose domain  *)
(* is its key set.                                                         *)
(***************************************************************************)
EXTENDS Integers, Sequences, FiniteSets, TLC

VARIABLES
    \* ---- tokenizer run (ADIFParser.parse, one loop iteration per step)
    adif_string,   \* the text being tokenized
    scan,          \* [i, fields, status]: cursor, dict so far, loop status
    src_tokens,    \* the tokens the text was built from (<<>> for raw text)
    src_noise,     \* the noise strings placed around those tokens
    \* ---- normalization run (QSOliveClient.process_adif)
    adif_data,     \* the datagram text handed to process_adif
    norm_config,   \* the configuration dict in force
    norm_now,      \* the clock reading datetime.now() gives during the call
    norm_out,      \* tag "pending", or the value process_adif returned
    \* ---- ingest loop (QSOliveClient.run)
    config,        \* configuration dict
    pc,            \* position of the main thread in run()
    sock,          \* "open" | "closed"
    sockbuf,       \* datagrams queued in the socket, oldest first (arrival numbers)
    arrived,       \* number of datagrams that have arrived so far
    timeouts,      \* receive timeouts since the last datagram (capped)
    cur,           \* arrival number of the datagram being processed (0: none)
    cur_data,      \* its decoded text
    contact,       \* result of process_adif for it
    attempt,       \* loop variable of the retry for-loop
    success,       \* the success flag of the retry loop
    calls,         \* outcomes of the insert_contact calls made for cur, in order
    sleeps,        \* the retry sleeps taken for cur: their delays, in order
    trace,         \* history: <<arrival number, step>> of every processing step
    interrupted,   \* a KeyboardInterrupt has been delivered
    at_interrupt   \* pc at the moment the interrupt was delivered

parserVars == <<adif_string, scan, src_tokens, src_noise>>
normVars   == <<adif_data, norm_config, norm_now, norm_out>>
loopVars   == <<config, pc, sock, sockbuf, arrived, timeouts, cur, cur_data, contact,
                attempt, success, calls, sleeps, trace, interrupted, at_interrupt>>
vars       == <<parserVars, normVars, loopVars>>

-----------------------------------------------------------------------------
(* Python string and dict primitives used by the source                     *)

SetMin(S) == CHOOSE x \in S : \A y \in S : x <= y
SetMax(S) == CHOOSE x \in S : \A y \in S : x >= y

\* slice index normalisation: negative counts from the end, then clamp
ClipIdx(s, k) ==
    IF k < 0 THEN (IF k + Len(s) < 0 THEN 0 ELSE k + Len(s))
    ELSE IF k > Len(s) THEN Len(s) ELSE k

\* s[a:b]
PySlice(s, a, b) ==
    LET lo == ClipIdx(s, a)
        hi == ClipIdx(s, b)
    IN  IF lo >= hi THEN <<>> ELSE SubSeq(s, lo + 1, hi)

\* s[i] is defined (no IndexError)
PyIndexOk(s, i) == i >= 0 - Len(s) /\ i < Len(s)

\* s[i]
PyIndex(s, i) == IF i >= 0 THEN s[i + 1] ELSE s[Len(s) + i + 1]

\* s.find(ch, start)
PyFind(s, ch, start) ==
    LET hits == {k \in ClipIdx(s, start)..(Len(s) - 1) : s[k + 1] = ch}
    IN  IF hits = {} THEN -1 ELSE SetMin(hits)

\* s.split(sep) for a one-character separator
RECURSIVE PySplit(_, _)
PySplit(s, sep) ==
    LET k == PyFind(s, sep, 0)
    IN  IF k = -1 THEN <<s>>
        ELSE <<PySlice(s, 0, k)>> \o PySplit(PySlice(s, k + 1, Len(s)), sep)

LowerLetters == <<"a","b","c","d","e","f","g","h","i","j","k","l","m",
                  "n","o","p","q","r","s","t","u","v","w","x","y","z">>
UpperLetters == <<"A","B","C","D","E","F","G","H","I","J","K","L","M",
                  "N","O","P","Q","R","S","T","U","V","W","X","Y","Z">>
Digits       == <<"0","1","2","3","4","5","6","7","8","9">>

UpperChar(c) ==
    IF \E k \in 1..26 : LowerLetters[k] = c
    THEN UpperLetters[CHOOSE k \in 1..26 : LowerLetters[k] = c]
    ELSE c

\* s.upper()
PyUpper(s) == [k \in 1..Len(s) |-> UpperChar(s[k])]

IsSpace(c) == c \in {" ", "\t", "\n", "\r"}

\* s.strip()
PyStrip(s) ==
    LET keep == {k \in 1..Len(s) : ~IsSpace(s[k])}
    IN  IF keep = {} THEN <<>> ELSE SubSeq(s, SetMin(keep), SetMax(keep))

IsDigit(c) == \E k \in 1..10 : Digits[k] = c
DigitVal(c) == (CHOOSE k \in 1..10 : Digits[k] = c) - 1

RECURSIVE DigitsVal(_)
DigitsVal(s) ==
    IF s = <<>> THEN 0
    ELSE 10 * DigitsVal(SubSeq(s, 1, Len(s) - 1)) + DigitVal(s[Len(s)])

AllDigits(s) == s # <<>> /\ \A k \in 1..Len(s) : IsDigit(s[k])

\* int(s): surrounding whitespace and one sign are accepted, then decimal
\* digits; anything else is a ValueError (ok = FALSE).
PyInt(s) ==
    LET t    == PyStrip(s)
        neg  == t # <<>> /\ t[1] = "-"
        sgn  == t # <<>> /\ t[1] \in {"-", "+"}
        body == IF sgn THEN SubSeq(t, 2, Len(t)) ELSE t
    IN  IF AllDigits(body)
        THEN [ok |-> TRUE, val |-> IF neg THEN 0 - DigitsVal(body) ELSE DigitsVal(body)]
        ELSE [ok |-> FALSE, val |-> 0]

EmptyDict == <<>>

\* d[k] = v
DictPut(d, k, v) == [x \in (DOMAIN d) \cup {k} |-> IF x = k THEN v ELSE d[x]]

\* d.get(k, default)
DictGet(d, k, default) == IF k \in DOMAIN d THEN d[k] ELSE default

-----------------------------------------------------------------------------
(* ADIFParser.parse                                                         *)

\* faulty variant of after_descriptor: the scan resumes one character too far
after_descriptor_skips_one(end) == end + 2

\* i = end + 1: the cursor after a descriptor that is not a field
after_descriptor(end) == end + 1

\* i = 0; fields = {}
scan_start == [i |-> 0, fields |-> EmptyDict, status |-> "run"]

\* One evaluation of the while condition and, when it holds, of the loop body.
\* status: "run" (loop continues), "return" (parse returned fields),
\* "raise" (adif_string[i] raised IndexError).
parse_step(s, st) ==
    LET i == st.i
    IN  IF ~(i < Len(s)) THEN [st EXCEPT !.status = "return"]
        ELSE IF ~PyIndexOk(s, i) THEN [st EXCEPT !.status = "raise"]
        ELSE IF PyIndex(s, i) = "<"
        THEN LET end == PyFind(s, ">", i)
             IN  IF end = -1 THEN [st EXCEPT !.status = "return"]
                 ELSE LET field_info == PySlice(s, i + 1, end)
                          parts      == PySplit(field_info, ":")
                      IN  IF Len(parts) >= 2
                          THEN LET field_name   == PyUpper(parts[1])
                                   field_length == PyInt(parts[2])
                                   value_start  == end + 1
                                   value == PySlice(s, value_start,
                                                    value_start + field_length.val)
                               IN  IF ~field_length.ok
                                   THEN [st EXCEPT !.i = after_descriptor(end)]
                                   ELSE [st EXCEPT
                                           !.fields = DictPut(@, field_name, PyStrip(value)),
                                           !.i = value_start + field_length.val]
                          ELSE [st EXCEPT !.i = after_descriptor(end)]
        ELSE [st EXCEPT !.i = i + 1]

\* The whole call.  The next cursor depends only on the text and the cursor,
\* so the loop fails to terminate exactly when a cursor value comes back:
\* that outcome is reported as status "hang".
RECURSIVE parse_from(_, _, _)
parse_from(s, st, seen) ==
    IF st.status # "run" THEN st
    ELSE IF st.i \in seen THEN [st EXCEPT !.status = "hang"]
    ELSE parse_from(s, parse_step(s, st), seen \cup {st.i})

parse(s) == parse_from(s, scan_start, {})

-----------------------------------------------------------------------------
(* Field names, literals                                                    *)

K_CALL             == <<"C","A","L","L">>
K_STATION_CALLSIGN == <<"S","T","A","T","I","O","N","_","C","A","L","L","S","I","G","N">>
K_QSO_DATE         == <<"Q","S","O","_","D","A","T","E">>
K_TIME_ON          == <<"T","I","M","E","_","O","N">>
K_BAND             == <<"B","A","N","D">>
K_MODE             == <<"M","O","D","E">>
K_FREQ             == <<"F","R","E","Q">>
K_RST_SENT         == <<"R","S","T","_","S","E","N","T">>
K_RST_RCVD         == <<"R","S","T","_","R","C","V","D">>
K_GRIDSQUARE       == <<"G","R","I","D","S","Q","U","A","R","E">>
K_MY_GRIDSQUARE    == <<"M","Y","_">> \o K_GRIDSQUARE
UNKNOWN            == <<"U","N","K","N","O","W","N">>

\* Optional values: Python None, or a value
None    == [tag |-> "None"]
Some(v) == [tag |-> "Some", v |-> v]

-----------------------------------------------------------------------------
(* GridSquareGeocoder.to_latlon and the maidenhead conversion it calls      *)

\* ord(c) for the characters locators are drawn from (letters, digits)
Ord(c) ==
    IF \E k \in 1..26 : UpperLetters[k] = c
    THEN 64 + (CHOOSE k \in 1..26 : UpperLetters[k] = c)
    ELSE IF \E k \in 1..26 : LowerLetters[k] = c
    THEN 96 + (CHOOSE k \in 1..26 : LowerLetters[k] = c)
    ELSE IF IsDigit(c) THEN 48 + DigitVal(c)
    ELSE 32

\* Units per degree of the fixed-point coordinates (1/240 degree is the
\* latitude step of an 8-character locator).
UnitsPerDegree == 240

\* maidenhead.to_location(grid): strip, upper, 2..8 characters and an even
\* number of them, letters by ord() offset, digit pairs by int().
\* ok = FALSE stands for the ValueError it raises.
mh_to_location(grid) ==
    LET m == PyUpper(PyStrip(grid))
        N == Len(m)
        U == UnitsPerDegree
        digitsOk == /\ (N >= 4 => IsDigit(m[3]) /\ IsDigit(m[4]))
                    /\ (N >= 8 => IsDigit(m[7]) /\ IsDigit(m[8]))
    IN  IF ~(N >= 2 /\ N <= 8 /\ N % 2 = 0) \/ ~digitsOk
        THEN [ok |-> FALSE, lat |-> 0, lon |-> 0]
        ELSE [ok  |-> TRUE,
              lon |-> (0 - 180) * U + (Ord(m[1]) - 65) * 20 * U
                      + (IF N >= 4 THEN DigitVal(m[3]) * 2 * U ELSE 0)
                      + (IF N >= 6 THEN (Ord(m[5]) - 65) * 20 ELSE 0)
                      + (IF N >= 8 THEN DigitVal(m[7]) * 2 ELSE 0),
              lat |-> (0 - 90) * U + (Ord(m[2]) - 65) * 10 * U
                      + (IF N >= 4 THEN DigitVal(m[4]) * U ELSE 0)
                      + (IF N >= 6 THEN (Ord(m[6]) - 65) * 10 ELSE 0)
                      + (IF N >= 8 THEN DigitVal(m[8]) ELSE 0)]

\* faulty variant of to_latlon: the minimum length test is missing
to_latlon_without_length_test(grid) ==
    LET r == mh_to_location(grid)
    IN  IF r.ok THEN Some(<<r.lat, r.lon>>) ELSE None

\* to_latlon(grid): None for an empty or short locator and for any
\* exception of the conversion, else (lat, lon)
to_latlon(grid) ==
    IF grid = <<>> \/ Len(grid) < 4 THEN None
    ELSE LET r == mh_to_location(grid)
         IN  IF r.ok THEN Some(<<r.lat, r.lon>>) ELSE None

\* f"POINT({latlon[1]} {latlon[0]})": longitude first
Point(latlon) == <<"POINT", latlon[2], latlon[1]>>

-----------------------------------------------------------------------------
(* float()                                                                  *)

RECURSIVE DropTrailingZeros(_)
DropTrailingZeros(s) ==
    IF s # <<>> /\ s[Len(s)] = "0" THEN DropTrailingZeros(SubSeq(s, 1, Len(s) - 1))
    ELSE s

\* float(s) for decimal literals: whitespace stripped, one sign, digits with
\* at most one point and at least one digit.  The value is num / 10^scale.
\* Other text is a ValueError (ok = FALSE); the texts drawn below contain no
\* exponent, underscore, inf or nan forms.
PyFloat(s) ==
    LET t     == PyStrip(s)
        neg   == t # <<>> /\ t[1] = "-"
        sgn   == t # <<>> /\ t[1] \in {"-", "+"}
        body  == IF sgn THEN SubSeq(t, 2, Len(t)) ELSE t
        halves == PySplit(body, ".")
        ip    == halves[1]
        fp    == IF Len(halves) = 2 THEN halves[2] ELSE <<>>
        wellFormed == /\ Len(halves) <= 2
                      /\ ip \o fp # <<>>
                      /\ \A k \in 1..Len(ip) : IsDigit(ip[k])
                      /\ \A k \in 1..Len(fp) : IsDigit(fp[k])
        frac  == DropTrailingZeros(fp)
        num   == DigitsVal(ip \o frac)
    IN  IF wellFormed
        THEN [ok |-> TRUE, val |-> [num |-> IF neg THEN 0 - num ELSE num, scale |-> Len(frac)]]
        ELSE [ok |-> FALSE, val |-> [num |-> 0, scale |-> 0]]

-----------------------------------------------------------------------------
(* QSOliveClient.process_adif                                               *)

\* faulty variant of rejects: an empty CALL value is rejected as well
rejects_empty_call(fields) ==
    DOMAIN fields = {} \/ K_CALL \notin DOMAIN fields \/ fields[K_CALL] = <<>>

\* the two early returns: no fields parsed, or no CALL field
rejects(fields) == DOMAIN fields = {} \/ K_CALL \notin DOMAIN fields

\* config.get('operator_callsign', fields.get('STATION_CALLSIGN', 'UNKNOWN'))
callsign_of(cfg, fields) ==
    DictGet(cfg, "operator_callsign", DictGet(fields, K_STATION_CALLSIGN, UNKNOWN))

\* config.get('operator_callsign', 'UNKNOWN')
operator_callsign_of(cfg, fields) == DictGet(cfg, "operator_callsign", UNKNOWN)

\* YYYYMMDD -> YYYY-MM-DD when the length is 8
convert_date(d) ==
    IF Len(d) = 8
    THEN PySlice(d, 0, 4) \o <<"-">> \o PySlice(d, 4, 6) \o <<"-">> \o PySlice(d, 6, Len(d))
    ELSE d

\* faulty variant of convert_time: only a length of exactly 6 is reformatted
convert_time_exactly_six(t) ==
    IF Len(t) = 6
    THEN PySlice(t, 0, 2) \o <<":">> \o PySlice(t, 2, 4) \o <<":">> \o PySlice(t, 4, 6)
    ELSE IF Len(t) = 4
    THEN PySlice(t, 0, 2) \o <<":">> \o PySlice(t, 2, 4) \o <<":", "0", "0">>
    ELSE t

\* HHMMSS -> HH:MM:SS when the length is >= 6, HHMM -> HH:MM:00 when it is 4
convert_time(t) ==
    IF Len(t) >= 6
    THEN PySlice(t, 0, 2) \o <<":">> \o PySlice(t, 2, 4) \o <<":">> \o PySlice(t, 4, 6)
    ELSE IF Len(t) = 4
    THEN PySlice(t, 0, 2) \o <<":">> \o PySlice(t, 2, 4) \o <<":", "0", "0">>
    ELSE t

\* if KEY in fields: contact[key] = fields[KEY]
copy_field(c, fields, K, key) == IF K \in DOMAIN fields THEN DictPut(c, key, fields[K]) ELSE c

\* if 'FREQ' in fields: try float() except ValueError: pass
copy_frequency(c, fields) ==
    IF K_FREQ \in DOMAIN fields /\ PyFloat(fields[K_FREQ]).ok
    THEN DictPut(c, "frequency", PyFloat(fields[K_FREQ]).val)
    ELSE c

\* the gridsquare / my_gridsquare blocks: raw locator always, point on success
geocode_field(c, fields, K, key, lockey) ==
    IF K \in DOMAIN fields
    THEN LET c1     == DictPut(c, key, fields[K])
             latlon == to_latlon(fields[K])
         IN  IF latlon # None THEN DictPut(c1, lockey, Point(latlon.v)) ELSE c1
    ELSE c

\* the record built from a FieldSet that was not rejected
build_contact(data, fields, cfg, now) ==
    LET base == [k \in {"callsign", "contacted_callsign", "qso_date", "time_on",
                        "operator_callsign"} |->
                   CASE k = "callsign"           -> callsign_of(cfg, fields)
                     [] k = "contacted_callsign" -> fields[K_CALL]
                     [] k = "qso_date" -> convert_date(DictGet(fields, K_QSO_DATE, now.date))
                     [] k = "time_on"  -> convert_time(DictGet(fields, K_TIME_ON, now.time))
                     [] k = "operator_callsign"  -> operator_callsign_of(cfg, fields)]
        c1 == copy_field(base, fields, K_BAND, "band")
        c2 == copy_field(c1, fields, K_MODE, "mode")
        c3 == copy_frequency(c2, fields)
        c4 == copy_field(c3, fields, K_RST_SENT, "rst_sent")
        c5 == copy_field(c4, fields, K_RST_RCVD, "rst_rcvd")
        c6 == geocode_field(c5, fields, K_GRIDSQUARE, "gridsquare", "location")
        c7 == geocode_field(c6, fields, K_MY_GRIDSQUARE, "my_gridsquare", "my_location")
    IN  DictPut(c7, "raw_adif", data)

\* process_adif(adif_data): tag "Some" with the contact, tag "None" (early
\* return, or an exception caught by the except clause), or tag "hang" when
\* the call never returns because parse does not terminate.
process_adif(data, cfg, now) ==
    LET p == parse(data)
    IN  IF p.status = "hang" THEN [tag |-> "hang"]
        ELSE IF p.status = "raise" THEN None
        ELSE IF rejects(p.fields) THEN None
        ELSE Some(build_contact(data, p.fields, cfg, now))

-----------------------------------------------------------------------------
(* Texts the runs are drawn from                                            *)

RECURSIVE NumStr(_)
NumStr(n) == IF n < 10 THEN <<Digits[n + 1]>>
             ELSE NumStr(n \div 10) \o <<Digits[(n % 10) + 1]>>

\* a well-formed token <NAME:LENGTH>VALUE with LENGTH = len(VALUE)
Tok(name, value) == <<"<">> \o name \o <<":">> \o NumStr(Len(value)) \o <<">">> \o value


\* "W1AW"
V_W1AW == <<"W","1","A","W">>

\* "K2XY"
V_K2XY == <<"K","2","X","Y">>

\* "N0CALL"
V_N0CALL == <<"N","0","C","A","L","L">>

\* "  "
V_Blank == <<" "," ">>

\* "FN31pr"
V_FN31pr == <<"F","N","3","1","p","r">>

\* "XY"
V_XY == <<"X","Y">>

\* "FNxx"
V_FNxx == <<"F","N","x","x">>

\* "FN31p"
V_FN31p == <<"F","N","3","1","p">>

\* "EM12"
V_EM12 == <<"E","M","1","2">>

\* "EM1"
V_EM1 == <<"E","M","1">>

\* "20240115"
V_Date8 == <<"2","0","2","4","0","1","1","5">>

\* "240115"
V_Date6 == <<"2","4","0","1","1","5">>

\* "1230"
V_Time4 == <<"1","2","3","0">>

\* "123045"
V_Time6 == <<"1","2","3","0","4","5">>

\* "12304"
V_Time5 == <<"1","2","3","0","4">>

\* "12304567"
V_Time8 == <<"1","2","3","0","4","5","6","7">>

\* "14.250"
V_Freq == <<"1","4",".","2","5","0">>

\* "notanumber"
V_BadFreq == <<"n","o","t","a","n","u","m","b","e","r">>

\* "20m"
V_20m == <<"2","0","m">>

\* "SSB"
V_SSB == <<"S","S","B">>

\* "59"
V_59 == <<"5","9">>

\* "57"
V_57 == <<"5","7">>

\* datetime.now(timezone.utc).strftime('%Y%m%d') at some instant
NowDate == <<"2","0","2","6","1","1","0","3">>

\* datetime.now(timezone.utc).strftime('%H%M%S') at that instant
NowTime == <<"1","8","4","5","0","1">>

\* "<CALL:10>AB"
R_Truncated == <<"<","C","A","L","L",":","1","0",">","A","B">>

\* "<A:3>xyz<B:2"
R_Unterminated == <<"<","A",":","3",">","x","y","z","<","B",":","2">>

\* "<A:x>abc<B:1>q"
R_BadLength == <<"<","A",":","x",">","a","b","c","<","B",":","1",">","q">>

\* "<A>abc<B:1>q"
R_NoLength == <<"<","A",">","a","b","c","<","B",":","1",">","q">>

\* "<A:-6>"
R_NegHang == <<"<","A",":","-","6",">">>

\* "<A:-99>"
R_NegRaise == <<"<","A",":","-","9","9",">">>

\* "<AB:-1>z"
R_NegSmall == <<"<","A","B",":","-","1",">","z">>

\* "<B:1>q<A:-19>"
R_NegWrap == <<"<","B",":","1",">","q","<","A",":","-","1","9",">">>

\* "<A:3:S>xyz"
R_Typed == <<"<","A",":","3",":","S",">","x","y","z">>

\* "<A: 3 >abc"
R_Padded == <<"<","A",":"," ","3"," ",">","a","b","c">>

\* ""
R_Empty == <<>>

\* "hello"
R_Garbage == <<"h","e","l","l","o">>

\* "<CALL:4>W1AW<A:-99>"
R_CallThenRaise == <<"<","C","A","L","L",":","4",">","W","1","A","W","<","A",":","-","9","9",">">>

\* "<call:4>W1AW"
R_LowerCall == <<"<","c","a","l","l",":","4",">","W","1","A","W">>

\* ""
N_None == <<>>

\* "x"
N_Plain == <<"x">>

\* ":>"
N_Delims == <<":",">">>

\* " "
N_Space == <<" ">>

\* "<EOR>"
N_EOR == <<"<","E","O","R",">">>

\* "<"
N_Open == <<"<">>

EOR == N_EOR

\* ---- tokenizer inputs: well-formed tokens with noise around them, and raw texts
TA   == [name |-> <<"A">>, value |-> <<"x","y","z">>]
TB   == [name |-> <<"B">>, value |-> <<"a","b">>]
TLow == [name |-> <<"a">>, value |-> <<" ","q">>]

TokenSeqs == {<<TA, TB>>, <<TB, TA>>, <<TA, TLow>>}
Noise     == {N_None, N_Plain, N_Delims, N_Space, N_EOR, N_Open}
RawTexts  == {R_Truncated, R_Unterminated, R_BadLength, R_NoLength, R_NegHang,
              R_NegRaise, R_NegSmall, R_NegWrap, R_Typed, R_Padded, R_Empty,
              R_Garbage, R_CallThenRaise, R_LowerCall}

\* ns[1] token1 ns[2] token2 ... ns[n+1]
RECURSIVE Compose(_, _)
Compose(ts, ns) ==
    IF ts = <<>> THEN ns[1]
    ELSE ns[1] \o Tok(ts[1].name, ts[1].value) \o Compose(Tail(ts), Tail(ns))

\* ---- normalization inputs: one choice per group of fields, then <EOR>
CallOpts    == {<<>>, Tok(K_CALL, V_W1AW), Tok(K_CALL, <<>>), Tok(K_CALL, V_Blank),
                R_LowerCall}
StationOpts == {<<>>, Tok(K_STATION_CALLSIGN, V_K2XY)}
GridOpts    == {<<>>, Tok(K_GRIDSQUARE, V_FN31pr), Tok(K_GRIDSQUARE, V_XY),
                Tok(K_GRIDSQUARE, V_FNxx), Tok(K_GRIDSQUARE, V_FN31p)}
MyGridOpts  == {<<>>, Tok(K_MY_GRIDSQUARE, V_EM12), Tok(K_MY_GRIDSQUARE, V_EM1)}
ExtraOpts   == {<<>>,
                Tok(K_QSO_DATE, V_Date8) \o Tok(K_TIME_ON, V_Time6) \o Tok(K_FREQ, V_Freq)
                    \o Tok(K_BAND, V_20m) \o Tok(K_MODE, V_SSB)
                    \o Tok(K_RST_SENT, V_59) \o Tok(K_RST_RCVD, V_57),
                Tok(K_QSO_DATE, V_Date6) \o Tok(K_TIME_ON, V_Time4) \o Tok(K_FREQ, V_BadFreq),
                Tok(K_TIME_ON, V_Time5) \o Tok(K_BAND, V_20m),
                Tok(K_TIME_ON, V_Time8) \o Tok(K_QSO_DATE, <<>>),
                Tok(K_TIME_ON, <<>>) \o Tok(K_FREQ, <<>>)}

\* longest QSO_DATE / TIME_ON value drawn
MaxValueLen == 9

\* values of every length 0..MaxValueLen: digits, and text that is no number
DigitText(n)  == [k \in 1..n |-> Digits[(k % 10) + 1]]
LetterText(n) == [k \in 1..n |-> IF k % 3 = 0 THEN ":" ELSE UpperLetters[(k % 26) + 1]]

DateTimeInputs ==
    {Tok(K_CALL, V_W1AW) \o Tok(K_QSO_DATE, d) \o Tok(K_TIME_ON, t) :
        d \in {DigitText(n) : n \in 0..MaxValueLen} \cup {LetterText(8)},
        t \in {DigitText(n) : n \in 0..MaxValueLen} \cup {LetterText(4), LetterText(7)}}

NormInputs ==
    {c \o s \o g \o m \o e \o EOR :
        c \in CallOpts, s \in StationOpts, g \in GridOpts, m \in MyGridOpts, e \in ExtraOpts}
    \cup {R_Empty, R_Garbage, R_CallThenRaise, R_NegHang}
    \cup DateTimeInputs

NormConfigs == {EmptyDict, DictPut(EmptyDict, "operator_callsign", V_N0CALL)}

\* the clock readings datetime.now() can give during a call
Clocks == {[date |-> NowDate, time |-> NowTime]}

-----------------------------------------------------------------------------
(* Values of the variables a specification does not use                     *)

ParserIdle ==
    /\ adif_string = <<>>
    /\ scan = [i |-> 0, fields |-> EmptyDict, status |-> "off"]
    /\ src_tokens = <<>>
    /\ src_noise = <<>>

NormIdle ==
    /\ adif_data = <<>>
    /\ norm_config = EmptyDict
    /\ norm_now = [date |-> NowDate, time |-> NowTime]
    /\ norm_out = [tag |-> "off"]

LoopIdle ==
    /\ config = EmptyDict
    /\ pc = "off"
    /\ sock = "closed"
    /\ sockbuf = <<>>
    /\ arrived = 0
    /\ timeouts = 0
    /\ cur = 0
    /\ cur_data = <<>>
    /\ contact = None
    /\ attempt = 0
    /\ success = FALSE
    /\ calls = <<>>
    /\ sleeps = <<>>
    /\ trace = <<>>
    /\ interrupted = FALSE
    /\ at_interrupt = "off"

-----------------------------------------------------------------------------
(* Tokenizer specification: one text, parse run one loop iteration at a time *)

ParserInit ==
    /\ \/ \E ts \in TokenSeqs, ns \in [1..3 -> Noise] :
            /\ src_tokens = ts
            /\ src_noise = ns
            /\ adif_string = Compose(ts, ns)
       \/ \E r \in RawTexts :
            /\ src_tokens = <<>>
            /\ src_noise = <<>>
            /\ adif_string = r
    /\ scan = scan_start
    /\ NormIdle
    /\ LoopIdle

\* while i < len(adif_string): ... (one iteration, or the exit)
ParseStep ==
    /\ scan.status = "run"
    /\ scan' = parse_step(adif_string, scan)
    /\ UNCHANGED <<adif_string, src_tokens, src_noise, normVars, loopVars>>

ParserNext == ParseStep

ParserSpec == ParserInit /\ [][ParserNext]_vars

-----------------------------------------------------------------------------
(* Normalization specification: one datagram text through process_adif      *)

NormInit ==
    /\ adif_data \in NormInputs
    /\ norm_config \in NormConfigs
    /\ norm_now \in Clocks
    /\ norm_out = [tag |-> "pending"]
    /\ ParserIdle
    /\ LoopIdle

\* contact = self.process_adif(adif_string), when the call returns
ProcessAdifCall ==
    /\ norm_out.tag = "pending"
    /\ norm_out' = process_adif(adif_data, norm_config, norm_now)
    /\ UNCHANGED <<adif_data, norm_config, norm_now, parserVars, loopVars>>

NormNext == ProcessAdifCall

NormSpec == NormInit /\ [][NormNext]_vars

-----------------------------------------------------------------------------
(* Ingest loop: QSOliveClient.run                                           *)

\* bounds of the loop model
MaxDatagrams     == 2   \* datagrams that arrive in one run
MaxRetryAttempts == 3   \* largest configured retry_attempts
MaxTimeouts      == 1   \* consecutive receive timeouts that are told apart

\* defaults of config.get('retry_attempts', 3) and config.get('retry_delay', 5)
DefaultRetryAttempts == 3
DefaultRetryDelay    == 5

retry_attempts(cfg) == DictGet(cfg, "retry_attempts", DefaultRetryAttempts)
retry_delay(cfg)    == DictGet(cfg, "retry_delay", DefaultRetryDelay)

\* a byte sequence that is not valid UTF-8, as one element of a datagram
InvalidByte == "\\xff"

\* data.decode('utf-8', errors='ignore'): invalid byte sequences are dropped
decode(data) == SelectSeq(data, LAMBDA b : b # InvalidByte)

LoopDatagrams ==
    {Tok(K_CALL, V_W1AW) \o Tok(K_GRIDSQUARE, V_EM12) \o EOR,
     <<InvalidByte>> \o Tok(K_CALL, V_K2XY) \o <<InvalidByte>>,
     Tok(K_BAND, V_20m),
     R_Garbage,
     R_NegHang,
     R_CallThenRaise}

LoopConfigs ==
    {EmptyDict, DictPut(EmptyDict, "retry_delay", 2)}
    \cup {DictPut(EmptyDict, "retry_attempts", n) : n \in 0..MaxRetryAttempts}

\* faulty variant of next_datagram: the newest queued datagram is taken first
next_datagram_newest(buf) == buf[Len(buf)]

\* the datagram sock.recvfrom returns: the oldest one queued
next_datagram(buf) == Head(buf)

\* faulty variant of loop_continues: one iteration too many
loop_continues_once_more(a, n) == a + 1 <= n

\* for attempt in range(retry_attempts): is there a next iteration
loop_continues(a, n) == a + 1 < n

\* faulty variant of sleeps_after_failure: the last failed attempt sleeps too
sleeps_after_every_failure(a, n) == a < n

\* if attempt < retry_attempts - 1: sleep before the next attempt
sleeps_after_failure(a, n) == a < n - 1

\* the state after the body of one iteration that did not break
next_iteration(a, n) ==
    IF loop_continues(a, n) THEN [pc |-> "deliver", attempt |-> a + 1]
    ELSE [pc |-> "recv", attempt |-> a]

Processing == {"process", "deliver", "sleep", "handler", "hung"}

LoopInit ==
    /\ config \in LoopConfigs
    /\ pc = "recv"
    /\ sock = "open"
    /\ sockbuf = <<>>
    /\ arrived = 0
    /\ timeouts = 0
    /\ cur = 0
    /\ cur_data = <<>>
    /\ contact = None
    /\ attempt = 0
    /\ success = FALSE
    /\ calls = <<>>
    /\ sleeps = <<>>
    /\ trace = <<>>
    /\ interrupted = FALSE
    /\ at_interrupt = "off"
    /\ ParserIdle
    /\ NormIdle

\* a datagram reaches the bound socket and is queued by the kernel
Arrive(d) ==
    /\ sock = "open"
    /\ arrived < MaxDatagrams
    /\ arrived' = arrived + 1
    /\ sockbuf' = Append(sockbuf, [id |-> arrived + 1, data |-> d])
    /\ UNCHANGED <<config, pc, sock, timeouts, cur, cur_data, contact, attempt,
                   success, calls, sleeps, trace, interrupted, at_interrupt,
                   parserVars, normVars>>

\* data, addr = self.sock.recvfrom(4096); adif_string = data.decode(...)
RecvDatagram ==
    /\ pc = "recv"
    /\ sockbuf # <<>>
    /\ LET d == next_datagram(sockbuf)
       IN  /\ cur' = d.id
           /\ cur_data' = decode(d.data)
           /\ sockbuf' = SelectSeq(sockbuf, LAMBDA x : x # d)
           /\ trace' = Append(trace, <<d.id, "recv">>)
    /\ pc' = "process"
    /\ timeouts' = 0
    /\ contact' = None
    /\ attempt' = 0
    /\ success' = FALSE
    /\ calls' = <<>>
    /\ sleeps' = <<>>
    /\ UNCHANGED <<config, sock, arrived, interrupted, at_interrupt,
                   parserVars, normVars>>

\* except socket.timeout: continue
RecvTimeout ==
    /\ pc = "recv"
    /\ sockbuf = <<>>
    /\ timeouts < MaxTimeouts
    /\ timeouts' = timeouts + 1
    /\ UNCHANGED <<config, pc, sock, sockbuf, arrived, cur, cur_data, contact,
                   attempt, success, calls, sleeps, trace, interrupted,
                   at_interrupt, parserVars, normVars>>

\* contact = self.process_adif(adif_string); if contact: success = False and
\* the for loop is entered (or skipped when range() is empty)
ProcessAdif ==
    /\ pc = "process"
    /\ \E now \in Clocks :
         LET r == process_adif(cur_data, config, now)
             n == retry_attempts(config)
         IN  /\ contact' = IF r.tag = "Some" THEN r ELSE None
             /\ pc' = IF r.tag = "hang" THEN "hung"
                      ELSE IF r.tag = "None" THEN "recv"
                      ELSE IF 0 < n THEN "deliver"
                      ELSE "recv"
    /\ trace' = Append(trace, <<cur, "process">>)
    /\ UNCHANGED <<config, sock, sockbuf, arrived, timeouts, cur, cur_data,
                   attempt, success, calls, sleeps, interrupted, at_interrupt,
                   parserVars, normVars>>

\* if self.supabase.insert_contact(contact): success = True; break
\* else: sleep when it was not the last attempt
InsertContact(ok) ==
    /\ pc = "deliver"
    /\ calls' = Append(calls, IF ok THEN "ok" ELSE "fail")
    /\ trace' = Append(trace, <<cur, "deliver">>)
    /\ LET n == retry_attempts(config)
       IN  IF ok
           THEN /\ success' = TRUE
                /\ pc' = "recv"
                /\ attempt' = attempt
           ELSE /\ success' = success
                /\ IF sleeps_after_failure(attempt, n)
                   THEN pc' = "sleep" /\ attempt' = attempt
                   ELSE /\ pc' = next_iteration(attempt, n).pc
                        /\ attempt' = next_iteration(attempt, n).attempt
    /\ UNCHANGED <<config, sock, sockbuf, arrived, timeouts, cur, cur_data,
                   contact, sleeps, interrupted, at_interrupt, parserVars, normVars>>

\* insert_contact raises something other than a RequestException: the call
\* leaves the for loop and reaches "except Exception" of the main loop
InsertContactRaises ==
    /\ pc = "deliver"
    /\ calls' = Append(calls, "raise")
    /\ trace' = Append(trace, <<cur, "deliver">>)
    /\ pc' = "handler"
    /\ UNCHANGED <<config, sock, sockbuf, arrived, timeouts, cur, cur_data,
                   contact, attempt, success, sleeps, interrupted, at_interrupt,
                   parserVars, normVars>>

\* logger.error(...); time.sleep(1), then the next iteration of while True
ErrorPause ==
    /\ pc = "handler"
    /\ pc' = "recv"
    /\ trace' = Append(trace, <<cur, "pause">>)
    /\ UNCHANGED <<config, sock, sockbuf, arrived, timeouts, cur, cur_data,
                   contact, attempt, success, calls, sleeps, interrupted,
                   at_interrupt, parserVars, normVars>>

\* time.sleep(delay), then the next iteration of the for loop
RetrySleep ==
    /\ pc = "sleep"
    /\ sleeps' = Append(sleeps, retry_delay(config))
    /\ trace' = Append(trace, <<cur, "sleep">>)
    /\ pc' = next_iteration(attempt, retry_attempts(config)).pc
    /\ attempt' = next_iteration(attempt, retry_attempts(config)).attempt
    /\ UNCHANGED <<config, sock, sockbuf, arrived, timeouts, cur, cur_data,
                   contact, success, calls, interrupted, at_interrupt,
                   parserVars, normVars>>

\* faulty variant of Interrupt: the finally clause does not close the socket
InterruptWithoutClose ==
    /\ pc \notin {"stopped", "off"}
    /\ interrupted' = TRUE
    /\ at_interrupt' = pc
    /\ pc' = "stopped"
    /\ UNCHANGED <<config, sock, sockbuf, arrived, timeouts, cur, cur_data, contact,
                   attempt, success, calls, sleeps, trace, parserVars, normVars>>

\* KeyboardInterrupt is raised at the statement being executed; neither
\* process_adif, insert_contact nor "except Exception" catches it, the inner
\* "except KeyboardInterrupt: raise" passes it on, the outer handler logs and
\* the finally clause closes the socket
Interrupt ==
    /\ pc \notin {"stopped", "off"}
    /\ interrupted' = TRUE
    /\ at_interrupt' = pc
    /\ pc' = "stopped"
    /\ sock' = "closed"
    /\ UNCHANGED <<config, sockbuf, arrived, timeouts, cur, cur_data, contact,
                   attempt, success, calls, sleeps, trace, parserVars, normVars>>

Next ==
    \/ \E d \in LoopDatagrams : Arrive(d)
    \/ RecvDatagram
    \/ RecvTimeout
    \/ ProcessAdif
    \/ \E ok \in BOOLEAN : InsertContact(ok)
    \/ InsertContactRaises
    \/ ErrorPause
    \/ RetrySleep
    \/ Interrupt

Spec == LoopInit /\ [][Next]_vars

-----------------------------------------------------------------------------
(* Properties of the ingest loop (Spec)                                     *)

\* the datagram in cur has been fully dealt with and the loop is back at the receive
Completed == pc = "recv" /\ cur # 0

\* C1: for one record and retry_attempts = N >= 1 the loop calls the delivery
\* client k times when the first success is the k-th call (k <= N) and N times
\* when N calls fail; the record counts as delivered iff one of the calls
\* succeeded, and no call is made after a successful one.
C1_RetryCount ==
    LET n == retry_attempts(config)
    IN  /\ Len(calls) <= n
        /\ \A k \in 1..(Len(calls) - 1) : calls[k] = "fail"
        /\ success <=> (\E k \in 1..Len(calls) : calls[k] = "ok")
        /\ (Completed /\ contact # None /\ n >= 1
               /\ \A k \in 1..Len(calls) : calls[k] = "fail")
              => Len(calls) = n
        /\ (pc \in {"deliver", "sleep"}) => ~success

\* a sink that failed twice and then succeeded, with retry_attempts = 3
C1_Witness ==
    /\ Completed
    /\ retry_attempts(config) = 3
    /\ calls = <<"fail", "fail", "ok">>
    /\ success

\* C2: no datagram stops the loop: unless an interrupt was delivered, the
\* loop is receiving or on its way back to the receive, so that the next
\* datagram is received and processed.
C2_LoopKeepsRunning ==
    ~interrupted => pc \in {"recv", "process", "deliver", "sleep", "handler"}

\* C3 (as stated): an interrupt makes the loop exit only once the processing
\* of the datagram in flight is complete, i.e. the loop is left from the
\* receive, and the socket is closed.
C3_ExitAfterInFlight ==
    pc = "stopped" => (at_interrupt = "recv" /\ sock = "closed")

\* C3 (amended): an interrupt ends the loop at once, wherever it is: the
\* datagram in flight is abandoned as it stands (parsed or not, delivered or
\* not, attempts left or not), and the socket is closed in every such exit.
C3_InterruptAbandons ==
    /\ pc = "stopped" <=> interrupted
    /\ interrupted => sock = "closed"
    /\ (interrupted /\ at_interrupt = "process") => (contact = None /\ calls = <<>>)
    /\ (interrupted /\ at_interrupt \in {"deliver", "sleep"})
          => (~success /\ Len(calls) < retry_attempts(config))
    /\ (interrupted /\ at_interrupt \in {"process", "deliver", "sleep"})
          => trace[Len(trace)][1] = cur

\* interrupted during the retry sleep after one failed attempt
C3_Witness ==
    /\ pc = "stopped"
    /\ at_interrupt = "sleep"
    /\ calls = <<"fail">>
    /\ sock = "closed"

\* C4: datagrams are processed in arrival order, one at a time: every step
\* of a datagram precedes the receive and every step of a later one.
C4_ArrivalOrder ==
    /\ \A j, k \in 1..Len(trace) : j < k => trace[j][1] <= trace[k][1]
    /\ \A k \in 1..Len(trace) :
          trace[k][2] = "recv" <=> (\A j \in 1..(k - 1) : trace[j][1] < trace[k][1])
    /\ \A k \in 1..Len(trace) : trace[k][1] >= 1 /\ trace[k][1] <= arrived
    /\ pc \in Processing => (trace # <<>> /\ trace[Len(trace)][1] = cur)
    /\ \A k \in 1..Len(sockbuf) : sockbuf[k].id > cur

\* the second datagram was received after the retries and sleeps of the first
C4_Witness ==
    \E j, k \in 1..Len(trace) :
        /\ j < k
        /\ trace[j] = <<1, "sleep">>
        /\ trace[k] = <<2, "deliver">>

\* C12: the retry delay is taken only between two consecutive delivery
\* attempts of one record: a failed attempt that is not the last allowed one
\* is followed by exactly one wait of retry_delay and then the next attempt;
\* no wait follows a success or the failure of the last allowed attempt, so
\* N failed attempts incur N - 1 waits before the loop receives again.
C12_WaitsBetweenAttempts ==
    LET n == retry_attempts(config)
    IN  /\ \A k \in 1..Len(sleeps) : sleeps[k] = retry_delay(config)
        /\ \A k \in 1..Len(trace) :
              trace[k][2] = "sleep" =>
                  /\ k > 1
                  /\ trace[k - 1] = <<trace[k][1], "deliver">>
                  /\ k < Len(trace) => trace[k + 1] = <<trace[k][1], "deliver">>
        /\ \A k \in 1..(Len(trace) - 1) :
              trace[k][2] = "deliver" => trace[k + 1] # <<trace[k][1], "deliver">>
        /\ pc = "deliver" => Len(sleeps) = Len(calls)
        /\ pc = "sleep" =>
              /\ Len(sleeps) = Len(calls) - 1
              /\ calls[Len(calls)] = "fail"
              /\ Len(calls) < n
        /\ (Completed /\ calls # <<>>) => Len(sleeps) = Len(calls) - 1
        /\ (Completed /\ contact # None /\ n >= 1
               /\ \A k \in 1..Len(calls) : calls[k] = "fail")
              => Len(sleeps) = n - 1

\* three failed attempts out of three: two waits of the configured delay
C12_Witness ==
    /\ Completed
    /\ retry_attempts(config) = 3
    /\ calls = <<"fail", "fail", "fail">>
    /\ sleeps = <<retry_delay(config), retry_delay(config)>>
    /\ ~success

-----------------------------------------------------------------------------
(* Properties of normalization (NormSpec)                                   *)

Returned == norm_out.tag \in {"Some", "None"}

\* the FieldSet the tokenizer returned for the datagram text
Tokenized == parse(adif_data).status = "return"
FieldSet  == parse(adif_data).fields

\* C5: normalization returns the empty result iff the FieldSet is empty or
\* has no CALL field, whatever the other fields contain.
C5_OnlyHardRejection ==
    (Returned /\ Tokenized) =>
        (norm_out = None <=> (DOMAIN FieldSet = {} \/ K_CALL \notin DOMAIN FieldSet))

\* a record was produced although FREQ is not a number and the locator
\* cannot be geocoded
C5_Witness ==
    /\ norm_out.tag = "Some"
    /\ K_FREQ \in DOMAIN FieldSet
    /\ "frequency" \notin DOMAIN norm_out.v
    /\ K_GRIDSQUARE \in DOMAIN FieldSet
    /\ "location" \notin DOMAIN norm_out.v

\* C6: every record normalization returns has a non-empty contacted_callsign;
\* a CALL token with an empty value produces no record.
C6_CallsignNonEmpty ==
    norm_out.tag = "Some" => norm_out.v["contacted_callsign"] # <<>>

\* the three-step fallback of C9
FallbackCallsign ==
    IF "operator_callsign" \in DOMAIN norm_config THEN norm_config["operator_callsign"]
    ELSE IF K_STATION_CALLSIGN \in DOMAIN FieldSet THEN FieldSet[K_STATION_CALLSIGN]
    ELSE UNKNOWN

\* C9: callsign and operator_callsign are both the configured operator
\* callsign, else the STATION_CALLSIGN field, else "UNKNOWN".
C9_SameFallback ==
    norm_out.tag = "Some" =>
        /\ norm_out.v["callsign"] = FallbackCallsign
        /\ norm_out.v["operator_callsign"] = FallbackCallsign

\* C10 for one locator field K, its raw attribute key and its point attribute
LocationRule(K, key, lockey) ==
    LET rec == norm_out.v
        f   == FieldSet
    IN  /\ lockey \in DOMAIN rec =>
              /\ K \in DOMAIN f
              /\ Len(f[K]) >= 4
              /\ mh_to_location(f[K]).ok
              /\ rec[lockey] = <<"POINT", mh_to_location(f[K]).lon, mh_to_location(f[K]).lat>>
        /\ key \in DOMAIN rec <=> K \in DOMAIN f
        /\ K \in DOMAIN f => rec[key] = f[K]
        /\ (K \in DOMAIN f /\ (Len(f[K]) < 4 \/ ~mh_to_location(f[K]).ok))
              => lockey \notin DOMAIN rec

\* C10: location (my_location) is present only if GRIDSQUARE (MY_GRIDSQUARE)
\* is present and that locator was geocoded; a short or unconvertible locator
\* leaves the raw gridsquare in the record, without a location, and the
\* record is still returned.
C10_LocationOnlyIfGeocoded ==
    /\ norm_out.tag = "Some" =>
          /\ LocationRule(K_GRIDSQUARE, "gridsquare", "location")
          /\ LocationRule(K_MY_GRIDSQUARE, "my_gridsquare", "my_location")
    /\ (Returned /\ Tokenized /\ K_CALL \in DOMAIN FieldSet) => norm_out.tag = "Some"

\* a record with the short locator XY kept raw and no location, next to a
\* geocoded MY_GRIDSQUARE
C10_Witness ==
    /\ norm_out.tag = "Some"
    /\ "gridsquare" \in DOMAIN norm_out.v
    /\ norm_out.v["gridsquare"] = V_XY
    /\ "location" \notin DOMAIN norm_out.v
    /\ "my_location" \in DOMAIN norm_out.v

\* the QSO_DATE / TIME_ON value normalization starts from: the field, else the clock
RawDate == IF K_QSO_DATE \in DOMAIN FieldSet THEN FieldSet[K_QSO_DATE] ELSE norm_now.date
RawTime == IF K_TIME_ON \in DOMAIN FieldSet THEN FieldSet[K_TIME_ON] ELSE norm_now.time

\* C11: reformatting is decided by length alone: a QSO_DATE of exactly 8
\* characters becomes YYYY-MM-DD, any other length is unchanged; a TIME_ON of
\* 6 or more characters becomes HH:MM:SS from its first 6, one of exactly 4
\* becomes HH:MM:00, any other length (0..3, 5) is unchanged; 20240115 gives
\* 2024-01-15, 1230 gives 12:30:00, 123045 gives 12:30:45.
C11_LengthDecides ==
    norm_out.tag = "Some" =>
        LET d  == RawDate
            t  == RawTime
            qd == norm_out.v["qso_date"]
            to == norm_out.v["time_on"]
        IN  /\ Len(d) = 8 => qd = <<d[1], d[2], d[3], d[4], "-", d[5], d[6], "-", d[7], d[8]>>
            /\ Len(d) # 8 => qd = d
            /\ Len(t) >= 6 => to = <<t[1], t[2], ":", t[3], t[4], ":", t[5], t[6]>>
            /\ Len(t) = 4 => to = <<t[1], t[2], ":", t[3], t[4], ":", "0", "0">>
            /\ Len(t) \in {0, 1, 2, 3, 5} => to = t
            /\ d = V_Date8 => qd = <<"2","0","2","4","-","0","1","-","1","5">>
            /\ t = V_Time4 => to = <<"1","2",":","3","0",":","0","0">>
            /\ t = V_Time6 => to = <<"1","2",":","3","0",":","4","5">>

\* a 9-character TIME_ON cut to its first six next to a 7-character QSO_DATE
\* passed through unchanged
C11_Witness ==
    /\ norm_out.tag = "Some"
    /\ K_QSO_DATE \in DOMAIN FieldSet
    /\ K_TIME_ON \in DOMAIN FieldSet
    /\ Len(FieldSet[K_QSO_DATE]) = 7
    /\ norm_out.v["qso_date"] = FieldSet[K_QSO_DATE]
    /\ Len(FieldSet[K_TIME_ON]) = 9
    /\ Len(norm_out.v["time_on"]) = 8

-----------------------------------------------------------------------------
(* Properties of the tokenizer (ParserSpec)                                 *)

\* the FieldSet a token sequence denotes: upper-cased names, trimmed values,
\* a later token replacing an earlier one of the same name
RECURSIVE Denoted(_)
Denoted(ts) ==
    IF ts = <<>> THEN EmptyDict
    ELSE LET t == ts[Len(ts)]
         IN  DictPut(Denoted(SubSeq(ts, 1, Len(ts) - 1)), PyUpper(t.name), PyStrip(t.value))

ParseReturned == scan.status = "return" /\ src_tokens # <<>>

\* noise without "<", or the end-of-record marker
HarmlessNoise(n) == n = EOR \/ \A k \in 1..Len(n) : n[k] # "<"

\* C7 (as stated): with any noise before, between and after the tokens,
\* "<", ">" and ":" included, the FieldSet is that of the tokens alone.
C7_AnyNoise ==
    ParseReturned => scan.fields = Denoted(src_tokens)

\* C7 (amended): the FieldSet is that of the tokens alone for every noise
\* that contains no "<" (it may contain ">" and ":") or is an <EOR> marker.
C7_NoiseWithoutOpen ==
    (ParseReturned /\ \A k \in 1..Len(src_noise) : HarmlessNoise(src_noise[k]))
        => scan.fields = Denoted(src_tokens)

\* the tokens of <A:3>xyz<B:2>ab between ":>", <EOR> and "x" give {A: xyz, B: ab}
C7_Witness ==
    /\ ParseReturned
    /\ src_tokens = <<TA, TB>>
    /\ src_noise = <<N_Delims, N_EOR, N_Plain>>
    /\ scan.fields = DictPut(DictPut(EmptyDict, <<"A">>, <<"x","y","z">>), <<"B">>, <<"a","b">>)

\* C8: the tokenizer never raises on truncated or malformed text: a length
\* beyond the buffer gives the remaining text, an unterminated "<" ends the
\* scan with the fields so far, a descriptor without name and numeric length
\* is skipped and later tokens are still returned.
C8_NeverRaises ==
    /\ scan.status # "raise"
    /\ (scan.status = "return" /\ adif_string = R_Truncated)
          => scan.fields = DictPut(EmptyDict, K_CALL, <<"A","B">>)
    /\ (scan.status = "return" /\ adif_string = R_Unterminated)
          => scan.fields = DictPut(EmptyDict, <<"A">>, <<"x","y","z">>)
    /\ (scan.status = "return" /\ adif_string \in {R_BadLength, R_NoLength})
          => scan.fields = DictPut(EmptyDict, <<"B">>, <<"q">>)


\* C13: the tokenizer terminates on every text: each iteration of the scan
\* loop moves the cursor strictly forward or leaves the loop, also for a
\* declared length of zero or a negative one such as <A:-6>.
C13_CursorAdvances ==
    [][scan.status = "run" => (scan'.status # "run" \/ scan'.i > scan.i)]_vars

====
